---------------------------- MODULE Spec2Model ----------------------------
(***************************************************************************)
(* Model of the voice-authentication console, ai-voice-web/src/App.jsx     *)
(* (the App component of lines 715-1612): the decision stack of            *)
(* handleAnalyze, the session history and its CSV export.                  *)
(*                                                                         *)
(* Numbers.  Every JavaScript number of the program is modelled by an      *)
(* integer counting ten-thousandths: 0.6 is 6000, -0.2 is -2000.  All      *)
(* literals of the source and all values drawn below are multiples of      *)
(* 0.0001, and a comparison of two such decimals as doubles has the        *)
(* result of the comparison of the integers.                               *)
(*                                                                         *)
(* Strings.  A string the program transforms or joins (file name, backend  *)
(* verdict, the fields of the CSV) is a sequence of one-character strings. *)
(* A string the program only stores (reason, alert text, tab name) is a    *)
(* TLA+ string.                                                            *)
(*                                                                         *)
(* JSON values.  A numeric field of the scoring response is Num(n), Null   *)
(* (JSON null) or Undefined (key absent).                                  *)
(***************************************************************************)
EXTENDS Integers, Sequences, FiniteSets, TLC

VARIABLES
    siteTab,        \* useState("demo"), line 717
    file,           \* useState(null), line 719: Null or [name |-> chars]
    audioUrl,       \* useState(null), line 720
    loading,        \* useState(false), line 721
    similarityThr,  \* useState(0.8), line 724
    anomalyThr,     \* useState(0.0), line 725
    tab,            \* useState("quick"), line 732
    result,         \* useState(null), line 733: Null or the merged record
    history,        \* useState([]), line 734: newest first
    pending,        \* scoring requests in flight: the closures of handleAnalyze
                    \* suspended at the await of line 791
    completed,      \* history variable: the records of the successful
                    \* analyses in the order in which they completed
    alertMsg,       \* the alert() raised by the last step, "" when none
    csv             \* the text handed to the Blob by the last step, <<>> when none

vars == <<siteTab, file, audioUrl, loading, similarityThr, anomalyThr, tab,
          result, history, pending, completed, alertMsg, csv>>

-----------------------------------------------------------------------------
(* JavaScript values *)

Null == [t |-> "null", v |-> 0]
Undefined == [t |-> "undef", v |-> 0]
Num(n) == [t |-> "num", v |-> n]

\* x ?? d
Coalesce(x, d) == IF x.t \in {"null", "undef"} THEN d ELSE x

\* Number(x) for x a number; Number(null) is 0 and Number(undefined) is NaN,
\* neither of which reaches Number() behind the ?? of lines 795-796.
ToNumber(x) == x.v

\* x !== null
NotNull(x) == x.t # "null"

\* x < n for a number n: null converts to 0, undefined to NaN (never less)
JsLess(x, n) ==
    CASE x.t = "num" -> x.v < n
      [] x.t = "null" -> 0 < n
      [] OTHER -> FALSE

\* String.prototype.toLowerCase, on the letters the model uses
LowerChar(c) ==
    CASE c = "F" -> "f" [] c = "A" -> "a" [] c = "K" -> "k" [] c = "E" -> "e"
      [] c = "R" -> "r" [] c = "L" -> "l"
      [] OTHER -> c

toLowerCase(s) == [i \in 1..Len(s) |-> LowerChar(s[i])]

\* the backend verdict: a string, or absent/null ([present |-> FALSE]);
\* (data.verdict || "") turns the absent one and "" into ""
OrEmpty(x) == IF x.present /\ x.s # <<>> THEN x.s ELSE <<>>


-----------------------------------------------------------------------------
(* String literals of the source, as character sequences *)

ACCEPT == <<"A", "C", "C", "E", "P", "T">>
REJECT == <<"R", "E", "J", "E", "C", "T">>
SUSPICIOUS == <<"S", "U", "S", "P", "I", "C", "I", "O", "U", "S">>
Low == <<"L", "o", "w">>
Medium == <<"M", "e", "d", "i", "u", "m">>
High == <<"H", "i", "g", "h">>
Fake == <<"f", "a", "k", "e">>

SpoofReason == "Spoof model: low real probability"
AnomalyReason == "Anomaly detector: unusual embedding"
MismatchReason == "Speaker mismatch: low similarity"

-----------------------------------------------------------------------------
(* The decision stack of handleAnalyze, lines 795-874.  data is the parsed  *)
(* scoring response; simThr and anoThr are the values of similarityThr and *)
(* anomalyThr the closure holds.                                           *)

probReal(data) == ToNumber(Coalesce(data.prob_real, Num(0)))

probFake(data) == ToNumber(Coalesce(data.prob_fake, Num(0)))

backendVerdict(data) == toLowerCase(OrEmpty(data.verdict))

\* line 803
spoofCheck(data) == probReal(data) < 6000

\* faulty variant of anomalyCheck: no test for null before the comparison
anomalyCheckNoNullGuard(data, anoThr) == JsLess(data.iso_score, anoThr)

\* faulty variant of anomalyCheck: a score above the threshold fails
anomalyCheckAbove(data, anoThr) ==
    NotNull(data.iso_score) /\ data.iso_score.t = "num"
        /\ data.iso_score.v > anoThr

\* line 805
anomalyCheck(data, anoThr) ==
    NotNull(data.iso_score) /\ JsLess(data.iso_score, anoThr)

\* faulty variant of mismatchCheck: the enrollment is read off best_match
mismatchCheckByBestMatch(data, simThr) ==
    NotNull(data.best_match) /\ NotNull(data.similarity)
        /\ JsLess(data.similarity, simThr)

\* faulty variant of mismatchCheck: a similarity equal to the threshold fails
mismatchCheckNonStrict(data, simThr) ==
    data.has_enrollment /\ NotNull(data.similarity)
        /\ (JsLess(data.similarity, simThr) \/ data.similarity = Num(simThr))

\* lines 807-811
mismatchCheck(data, simThr) ==
    data.has_enrollment /\ NotNull(data.similarity)
        /\ JsLess(data.similarity, simThr)

\* faulty variant of reasons: the three checks chained with else
reasonsElseIf(data, simThr, anoThr) ==
    IF spoofCheck(data) THEN <<SpoofReason>>
    ELSE IF anomalyCheck(data, anoThr) THEN <<AnomalyReason>>
    ELSE IF mismatchCheck(data, simThr) THEN <<MismatchReason>>
    ELSE <<>>

\* faulty variant of reasons: the speaker mismatch looked at first
reasonsMismatchFirst(data, simThr, anoThr) ==
    LET r1 == IF mismatchCheck(data, simThr) THEN <<MismatchReason>> ELSE <<>>
        r2 == IF spoofCheck(data) THEN Append(r1, SpoofReason) ELSE r1
    IN  IF anomalyCheck(data, anoThr) THEN Append(r2, AnomalyReason) ELSE r2

\* faulty variant of reasons: mismatch first, anomaly second, spoof third
reasonsMismatchAnomalySpoof(data, simThr, anoThr) ==
    LET r1 == IF mismatchCheck(data, simThr) THEN <<MismatchReason>> ELSE <<>>
        r2 == IF anomalyCheck(data, anoThr) THEN Append(r1, AnomalyReason) ELSE r1
    IN  IF spoofCheck(data) THEN Append(r2, SpoofReason) ELSE r2

reasons(data, simThr, anoThr) ==
    LET r1 == IF spoofCheck(data) THEN <<SpoofReason>> ELSE <<>>
        r2 == IF anomalyCheck(data, anoThr) THEN Append(r1, AnomalyReason) ELSE r1
    IN  IF mismatchCheck(data, simThr) THEN Append(r2, MismatchReason) ELSE r2

\* faulty variant of baseVerdict: the label compared without lower-casing
baseVerdictCaseSensitive(data) ==
    IF OrEmpty(data.verdict) = Fake /\ probFake(data) > 6000
    THEN REJECT ELSE ACCEPT

\* faulty variant of baseVerdict: the fake probability taken as 1 - prob_real
baseVerdictFromReal(data) ==
    IF backendVerdict(data) = Fake /\ 10000 - probReal(data) > 6000
    THEN REJECT ELSE ACCEPT

baseVerdict(data) ==
    IF backendVerdict(data) = Fake /\ probFake(data) > 6000
    THEN REJECT ELSE ACCEPT

\* faulty variant of finalVerdict: the reasons looked at before the base verdict
finalVerdictReasonsFirst(base, rs) ==
    IF Len(rs) > 0 THEN SUSPICIOUS
    ELSE IF base = REJECT THEN REJECT
    ELSE ACCEPT

finalVerdict(base, rs) ==
    IF base = ACCEPT /\ Len(rs) = 0 THEN ACCEPT
    ELSE IF base = REJECT THEN REJECT
    ELSE SUSPICIOUS

\* faulty variant of baseRisk: 0.75 itself counted as borderline
baseRiskAbove075(data) ==
    IF probReal(data) > 7500 THEN 0
    ELSE IF probReal(data) >= 5000 THEN 1
    ELSE 2

\* faulty variant of baseRisk: every band one point higher
baseRiskOneHigher(data) ==
    IF probReal(data) >= 7500 THEN 1
    ELSE IF probReal(data) >= 5000 THEN 2
    ELSE 3

\* faulty variant of baseRisk: two points for every real probability below 0.75
baseRiskBelow075IsTwo(data) ==
    IF probReal(data) >= 7500 THEN 0 ELSE 2

\* lines 827-834
baseRisk(data) ==
    IF probReal(data) >= 7500 THEN 0
    ELSE IF probReal(data) >= 5000 THEN 1
    ELSE 2

\* lines 837-839
anomalyPenalty(data, anoThr) ==
    IF NotNull(data.iso_score) /\ JsLess(data.iso_score, anoThr) THEN 1 ELSE 0

\* lines 842-844
mismatchPenalty(data, simThr) ==
    IF data.has_enrollment /\ NotNull(data.similarity)
          /\ JsLess(data.similarity, simThr)
    THEN 1 ELSE 0

riskScore(data, simThr, anoThr) ==
    baseRisk(data) + anomalyPenalty(data, anoThr) + mismatchPenalty(data, simThr)

\* faulty variant of riskString: the hard rule left out
riskStringNoHardRule(data, simThr, anoThr) ==
    IF riskScore(data, simThr, anoThr) <= 1 THEN Low
    ELSE IF riskScore(data, simThr, anoThr) = 2 THEN Medium
    ELSE High

\* faulty variant of riskString: the hard rule spelling its tier "HIGH"
riskStringUpperHigh(data, simThr, anoThr) ==
    IF probReal(data) < 5000 THEN <<"H", "I", "G", "H">>
    ELSE IF riskScore(data, simThr, anoThr) <= 1 THEN Low
    ELSE IF riskScore(data, simThr, anoThr) = 2 THEN Medium
    ELSE High

\* lines 846-860
riskString(data, simThr, anoThr) ==
    IF probReal(data) < 5000 THEN High
    ELSE IF riskScore(data, simThr, anoThr) <= 1 THEN Low
    ELSE IF riskScore(data, simThr, anoThr) = 2 THEN Medium
    ELSE High

\* faulty variant of merged: the thresholds recorded are those of the sliders
\* when the response arrives, not those the decision was made with
mergedLiveThresholds(data, f, simThr, anoThr) ==
    [ verdict |-> data.verdict,
      iso_score |-> data.iso_score,
      similarity |-> data.similarity,
      has_enrollment |-> data.has_enrollment,
      best_match |-> data.best_match,
      prob_real |-> probReal(data),
      prob_fake |-> probFake(data),
      verdict_frontend |-> finalVerdict(baseVerdict(data), reasons(data, simThr, anoThr)),
      risk_level_frontend |-> riskString(data, simThr, anoThr),
      reasons |-> reasons(data, simThr, anoThr),
      file_name |-> f.name,
      similarity_threshold_used |-> similarityThr,
      anomaly_threshold_used |-> anomalyThr ]

\* lines 864-874: {...data, prob_real, prob_fake, ...}
merged(data, f, simThr, anoThr) ==
    [ verdict |-> data.verdict,
      iso_score |-> data.iso_score,
      similarity |-> data.similarity,
      has_enrollment |-> data.has_enrollment,
      best_match |-> data.best_match,
      prob_real |-> probReal(data),
      prob_fake |-> probFake(data),
      verdict_frontend |-> finalVerdict(baseVerdict(data), reasons(data, simThr, anoThr)),
      risk_level_frontend |-> riskString(data, simThr, anoThr),
      reasons |-> reasons(data, simThr, anoThr),
      file_name |-> f.name,
      similarity_threshold_used |-> simThr,
      anomaly_threshold_used |-> anoThr ]

\* lines 878-884: the history entry of one analysis
\* faulty variant of historyEntry: the base verdict recorded, not the final one
historyEntryBaseVerdict(data, f, simThr, anoThr) ==
    [ file |-> f.name,
      verdict |-> baseVerdict(data),
      probReal |-> probReal(data),
      probFake |-> probFake(data),
      risk |-> riskString(data, simThr, anoThr) ]

historyEntry(data, f, simThr, anoThr) ==
    [ file |-> f.name,
      verdict |-> finalVerdict(baseVerdict(data), reasons(data, simThr, anoThr)),
      probReal |-> probReal(data),
      probFake |-> probFake(data),
      risk |-> riskString(data, simThr, anoThr) ]

\* faulty variant of prepend: the entry put last
appendLast(entry, prev) == prev \o <<entry>>

\* faulty variant of prepend: only the newest entry kept
prependKeepOne(entry, prev) == SubSeq(<<entry>> \o prev, 1, 1)

\* line 877: (prev) => [entry, ...prev]
prepend(entry, prev) == <<entry>> \o prev

-----------------------------------------------------------------------------
(* The CSV export of handleDownloadHistory, lines 901-910 *)

Digit(d) ==
    CASE d = 0 -> "0" [] d = 1 -> "1" [] d = 2 -> "2" [] d = 3 -> "3"
      [] d = 4 -> "4" [] d = 5 -> "5" [] d = 6 -> "6" [] d = 7 -> "7"
      [] d = 8 -> "8" [] d = 9 -> "9"

\* Number.prototype.toString of an integer (the index is joined as a number)
RECURSIVE NatToString(_)
NatToString(n) ==
    IF n < 10 THEN <<Digit(n)>>
    ELSE Append(NatToString(n \div 10), Digit(n % 10))

IntToString(n) == IF n < 0 THEN <<"-">> \o NatToString(-n) ELSE NatToString(n)

\* Number.prototype.toFixed(3): the value rounded to thousandths, three
\* decimals always written.  x counts ten-thousandths; the values of the
\* model never lie halfway between two thousandths.
toFixed3(x) ==
    LET a == IF x < 0 THEN -x ELSE x
        n == (a + 5) \div 10
        f == n % 1000
    IN  (IF x < 0 THEN <<"-">> ELSE <<>>)
          \o NatToString(n \div 1000)
          \o <<".", Digit(f \div 100), Digit((f \div 10) % 10), Digit(f % 10)>>

\* Array.prototype.join on an array of strings
RECURSIVE join(_, _)
join(strs, sep) ==
    IF Len(strs) = 0 THEN <<>>
    ELSE IF Len(strs) = 1 THEN strs[1]
    ELSE strs[1] \o sep \o join(Tail(strs), sep)

\* line 901
header ==
    << <<"i", "n", "d", "e", "x">>, <<"f", "i", "l", "e">>,
       <<"v", "e", "r", "d", "i", "c", "t">>,
       <<"p", "r", "o", "b", "_", "r", "e", "a", "l">>,
       <<"p", "r", "o", "b", "_", "f", "a", "k", "e">>,
       <<"r", "i", "s", "k">> >>

\* lines 902-909: history.map((h, idx) => [...]), idx counted from 0
rows(hist) ==
    [ i \in 1..Len(hist) |->
        << IntToString(Len(hist) - (i - 1)),
           hist[i].file,
           hist[i].verdict,
           toFixed3(hist[i].probReal),
           toFixed3(hist[i].probFake),
           hist[i].risk >> ]

\* line 910
csvText(hist) ==
    join(<<join(header, <<",">>)>>
            \o [i \in 1..Len(hist) |-> join(rows(hist)[i], <<",">>)],
         <<"\n">>)

-----------------------------------------------------------------------------
(* Inputs *)

\* the longest session the model follows: analyses are started while the
\* history holds fewer records than this
MaxHistory == 2

\* File objects the user can select; a file name is any string of the file
\* system, commas and line breaks included
Files ==
    { [name |-> <<"a">>],
      [name |-> <<"b", ",", "c", "\n", "d">>] }

Present(s) == [present |-> TRUE, s |-> s]
Absent == [present |-> FALSE, s |-> <<>>]
Str(n) == [t |-> "str", v |-> n]

Response(pr, pf, vd, iso, sim, he, bm) ==
    [ prob_real |-> pr, prob_fake |-> pf, verdict |-> vd, iso_score |-> iso,
      similarity |-> sim, has_enrollment |-> he, best_match |-> bm ]

\* scoring responses of a session: a genuine sample, a spoofed one, and a
\* borderline one of an enrolled speaker
Responses ==
    { Response(Num(9000), Num(1000), Present(<<"r", "e", "a", "l">>),
               Num(5000), Null, FALSE, Null),
      Response(Num(3000), Num(7000), Present(<<"F", "a", "k", "e">>),
               Null, Null, FALSE, Null),
      Response(Num(5500), Num(4500), Present(<<"r", "e", "a", "l">>),
               Num(-2000), Num(7000), TRUE, Str(1)) }

\* positions of the similarity slider (0.6 to 0.99 in steps of 0.01) and of
\* the anomaly slider (-1.5 to 1.5 in steps of 0.05) the session moves to
SimilaritySteps == {6000, 8000}
AnomalySteps == {-5000, 0}

\* the scoring responses of the decision stack taken alone: every field on
\* both sides of each comparison of the stack, out-of-range values, absent
\* and null fields
DecideResponses ==
    { Response(pr, pf, vd, iso, sim, he, bm) :
        pr \in {Num(n) : n \in {-1000, 4999, 5000, 5999, 6000, 7499, 7500, 15000}}
                 \cup {Null},
        pf \in {Num(n) : n \in {1000, 6000, 6001, 20000}} \cup {Undefined},
        vd \in { Present(<<"f", "a", "k", "e">>), Present(<<"F", "A", "K", "E">>),
                 Present(<<"r", "e", "a", "l">>), Absent },
        iso \in {Num(n) : n \in {-15001, -1, 0, 499}} \cup {Null, Undefined},
        sim \in {Num(n) : n \in {-10000, 6000, 7999, 8000}} \cup {Null, Undefined},
        he \in BOOLEAN,
        bm \in {Null, Str(1)} }

\* every position of the similarity slider: 0.60 to 0.99 in steps of 0.01
SimilaritySliderValues == {6000 + 100 * k : k \in 0..39}

\* every position of the anomaly slider: -1.50 to 1.50 in steps of 0.05
AnomalySliderValues == {-15000 + 500 * k : k \in 0..60}

DecideSimilaritySteps == {6000, 8000}
DecideAnomalySteps == {-15000, 0, 500}

-----------------------------------------------------------------------------
(* The component *)

Init ==
    /\ siteTab = "demo"
    /\ file = Null
    /\ audioUrl = Null
    /\ loading = FALSE
    /\ similarityThr = 8000
    /\ anomalyThr = 0
    /\ tab = "quick"
    /\ result = Null
    /\ history = <<>>
    /\ pending = <<>>
    /\ completed = <<>>
    /\ alertMsg = ""
    /\ csv = <<>>

\* a step that raises no alert and downloads nothing
Quiet == alertMsg' = "" /\ csv' = <<>>

\* what is rendered: the demo page (line 992), its quick-verdict tab (line
\* 1133) and, in it, the verdict card's body (line 1215)
DemoShown == siteTab = "demo"
QuickShown == DemoShown /\ tab = "quick"
HistoryShown == QuickShown /\ result # Null

\* lines 973-985
setSiteTab ==
    /\ \E t \in {"demo", "how", "about"} : siteTab' = t
    /\ Quiet
    /\ UNCHANGED <<file, audioUrl, loading, similarityThr, anomalyThr, tab,
                   result, history, pending, completed>>

\* lines 1120, 1126
setTab ==
    /\ DemoShown
    /\ \E t \in {"quick", "expert"} : tab' = t
    /\ Quiet
    /\ UNCHANGED <<siteTab, file, audioUrl, loading, similarityThr, anomalyThr,
                   result, history, pending, completed>>

\* lines 740-749; f is e.target.files[0], Null when the selection is empty
onFileChange ==
    /\ QuickShown
    /\ \E f \in Files \cup {Null} :
          /\ file' = f
          /\ audioUrl' = IF f # Null THEN [blob |-> f.name] ELSE Null
    /\ Quiet
    /\ UNCHANGED <<siteTab, loading, similarityThr, anomalyThr, tab, result,
                   history, pending, completed>>

\* faulty variant of setSimilarityThr: the threshold recorded in the
\* displayed result follows the slider
setSimilarityThrIntoResult ==
    /\ DemoShown
    /\ \E x \in SimilaritySteps :
          /\ similarityThr' = x
          /\ result' = IF result = Null THEN Null
                       ELSE [result EXCEPT !.similarity_threshold_used = x]
    /\ Quiet
    /\ UNCHANGED <<siteTab, file, audioUrl, loading, anomalyThr, tab,
                   history, pending, completed>>

\* lines 1016-1024
setSimilarityThr ==
    /\ DemoShown
    /\ \E x \in SimilaritySteps : similarityThr' = x
    /\ Quiet
    /\ UNCHANGED <<siteTab, file, audioUrl, loading, anomalyThr, tab, result,
                   history, pending, completed>>

\* lines 1037-1043
setAnomalyThr ==
    /\ DemoShown
    /\ \E x \in AnomalySteps : anomalyThr' = x
    /\ Quiet
    /\ UNCHANGED <<siteTab, file, audioUrl, loading, similarityThr, tab, result,
                   history, pending, completed>>

\* what the handlers of one render see: handleAnalyze keeps these values
\* across its await, whatever is set in the meantime
closure ==
    [file |-> file, similarityThr |-> similarityThr, anomalyThr |-> anomalyThr,
     history |-> history]

\* faulty variant of handleAnalyze: the button not disabled while loading
handleAnalyzeNotDisabled ==
    /\ QuickShown
    /\ Len(history) + Len(pending) < MaxHistory
    /\ IF file = Null
       THEN /\ alertMsg' = "Select or load an audio file first."
            /\ csv' = <<>>
            /\ UNCHANGED <<loading, pending>>
       ELSE /\ loading' = TRUE
            /\ pending' = Append(pending, closure)
            /\ Quiet
    /\ UNCHANGED <<siteTab, file, audioUrl, similarityThr, anomalyThr, tab,
                   result, history, completed>>

\* faulty variant of handleAnalyze: no test of the file before the request
handleAnalyzeNoFileGuard ==
    /\ QuickShown
    /\ ~loading
    /\ Len(history) < MaxHistory
    /\ loading' = TRUE
    /\ pending' = Append(pending, closure)
    /\ Quiet
    /\ UNCHANGED <<siteTab, file, audioUrl, similarityThr, anomalyThr, tab,
                   result, history, completed>>

\* lines 781-791: the click on "Analyze sample" (disabled while loading,
\* line 1158) up to the await of the scoring request
handleAnalyze ==
    /\ QuickShown
    /\ ~loading
    /\ Len(history) < MaxHistory
    /\ IF file = Null
       THEN /\ alertMsg' = "Select or load an audio file first."
            /\ csv' = <<>>
            /\ UNCHANGED <<loading, pending>>
       ELSE /\ loading' = TRUE
            /\ pending' = Append(pending, closure)
            /\ Quiet
    /\ UNCHANGED <<siteTab, file, audioUrl, similarityThr, anomalyThr, tab,
                   result, history, completed>>

Remove(s, i) == SubSeq(s, 1, i - 1) \o SubSeq(s, i + 1, Len(s))

\* faulty variant of handleAnalyzeResolved: setHistory([entry, ...history])
\* with the history of the render that sent the request
handleAnalyzeResolvedStale(i, data) ==
    LET c == pending[i]
        entry == historyEntry(data, c.file, c.similarityThr, c.anomalyThr)
    IN  /\ result' = merged(data, c.file, c.similarityThr, c.anomalyThr)
        /\ history' = prepend(entry, c.history)
        /\ completed' = Append(completed, entry)
        /\ loading' = FALSE
        /\ pending' = Remove(pending, i)
        /\ Quiet
        /\ UNCHANGED <<siteTab, file, audioUrl, similarityThr, anomalyThr, tab>>

\* lines 793-886 and 890-892: the scoring response data arrives for the i-th
\* request in flight and its closure runs to the end
handleAnalyzeResolved(i, data) ==
    LET c == pending[i]
        entry == historyEntry(data, c.file, c.similarityThr, c.anomalyThr)
    IN  /\ result' = merged(data, c.file, c.similarityThr, c.anomalyThr)
        /\ history' = prepend(entry, history)
        /\ completed' = Append(completed, entry)
        /\ loading' = FALSE
        /\ pending' = Remove(pending, i)
        /\ Quiet
        /\ UNCHANGED <<siteTab, file, audioUrl, similarityThr, anomalyThr, tab>>

AnalyzeSucceeds ==
    \E i \in 1..Len(pending) : \E data \in Responses :
        handleAnalyzeResolved(i, data)

\* faulty variant of AnalyzeFails: the failure clears the displayed result
AnalyzeFailsClearsResult ==
    \E i \in 1..Len(pending) :
        /\ \E m \in {"Error calling backend: Failed to fetch",
                     "Error calling backend: HTTP 500"} : alertMsg' = m
        /\ csv' = <<>>
        /\ loading' = FALSE
        /\ pending' = Remove(pending, i)
        /\ result' = Null
        /\ UNCHANGED <<siteTab, file, audioUrl, similarityThr, anomalyThr, tab,
                       history, completed>>

\* faulty variant of AnalyzeFails: no finally block, the flag left set
AnalyzeFailsNoFinally ==
    \E i \in 1..Len(pending) :
        /\ \E m \in {"Error calling backend: Failed to fetch",
                     "Error calling backend: HTTP 500"} : alertMsg' = m
        /\ csv' = <<>>
        /\ pending' = Remove(pending, i)
        /\ UNCHANGED <<siteTab, file, audioUrl, loading, similarityThr,
                       anomalyThr, tab, result, history, completed>>

\* lines 791-792 and 887-892: the request fails, or its status is not OK
AnalyzeFails ==
    \E i \in 1..Len(pending) :
        /\ \E m \in {"Error calling backend: Failed to fetch",
                     "Error calling backend: HTTP 500"} : alertMsg' = m
        /\ csv' = <<>>
        /\ loading' = FALSE
        /\ pending' = Remove(pending, i)
        /\ UNCHANGED <<siteTab, file, audioUrl, similarityThr, anomalyThr, tab,
                       result, history, completed>>

\* lines 901-919 without the guard of lines 897-900
handleDownloadHistoryNoGuard ==
    /\ alertMsg' = ""
    /\ csv' = csvText(history)
    /\ UNCHANGED <<siteTab, file, audioUrl, loading, similarityThr, anomalyThr,
                   tab, result, history, pending, completed>>

\* faulty variant of handleDownloadHistory: the rows put oldest first by
\* reversing the history array in place
handleDownloadHistoryReverses ==
    /\ IF Len(history) = 0
       THEN alertMsg' = "No history to download." /\ csv' = <<>>
                /\ history' = history
       ELSE /\ alertMsg' = ""
            /\ history' = [i \in 1..Len(history) |-> history[Len(history) - i + 1]]
            /\ csv' = csvText(history')
    /\ UNCHANGED <<siteTab, file, audioUrl, loading, similarityThr, anomalyThr,
                   tab, result, pending, completed>>

\* lines 896-920
handleDownloadHistory ==
    /\ IF Len(history) = 0
       THEN alertMsg' = "No history to download." /\ csv' = <<>>
       ELSE alertMsg' = "" /\ csv' = csvText(history)
    /\ UNCHANGED <<siteTab, file, audioUrl, loading, similarityThr, anomalyThr,
                   tab, result, history, pending, completed>>

\* the click on "Download CSV", line 1280
DownloadClicked == HistoryShown /\ handleDownloadHistory

Next ==
    \/ setSiteTab
    \/ setTab
    \/ onFileChange
    \/ setSimilarityThr
    \/ setAnomalyThr
    \/ handleAnalyze
    \/ AnalyzeSucceeds
    \/ AnalyzeFails
    \/ DownloadClicked

Spec == Init /\ [][Next]_vars

\* the steps that touch the loading flag or the requests in flight, and
\* those that show and hide the Analyze button or change its file
NextAnalyze ==
    \/ setTab
    \/ onFileChange
    \/ handleAnalyze
    \/ AnalyzeSucceeds
    \/ AnalyzeFails

\* the analysis under the condition that every scoring request in flight
\* settles: fetch resolves or rejects (lines 791-793)
SpecLive ==
    Init /\ [][NextAnalyze]_vars /\ WF_vars(AnalyzeSucceeds \/ AnalyzeFails)

-----------------------------------------------------------------------------
(* The handlers called directly, whatever is rendered or disabled: the     *)
(* export with no result on the page, and handleAnalyze while requests are *)
(* in flight.  The page itself never does either (lines 1158, 1215).       *)

\* the most requests in flight at a time
MaxPending == 2

\* lines 781-791, called while any number of requests is in flight
handleAnalyzeCalled ==
    /\ Len(pending) < MaxPending
    /\ Len(history) + Len(pending) < MaxHistory
    /\ IF file = Null
       THEN /\ alertMsg' = "Select or load an audio file first."
            /\ csv' = <<>>
            /\ UNCHANGED <<loading, pending>>
       ELSE /\ loading' = TRUE
            /\ pending' = Append(pending, closure)
            /\ Quiet
    /\ UNCHANGED <<siteTab, file, audioUrl, similarityThr, anomalyThr, tab,
                   result, history, completed>>

NextHandlers ==
    \/ onFileChange
    \/ handleAnalyzeCalled
    \/ AnalyzeSucceeds
    \/ AnalyzeFails
    \/ handleDownloadHistory

SpecHandlers == Init /\ [][NextHandlers]_vars

-----------------------------------------------------------------------------
(* The decision stack alone: one scoring request is in flight, made with   *)
(* any slider positions, and any response arrives for it.                  *)

DecideInit ==
    /\ siteTab = "demo"
    /\ file = [name |-> <<"a">>]
    /\ audioUrl = [blob |-> file.name]
    /\ loading = TRUE
    /\ similarityThr \in DecideSimilaritySteps
    /\ anomalyThr \in DecideAnomalySteps
    /\ tab = "quick"
    /\ result = Null
    /\ history = <<>>
    /\ pending = <<closure>>
    /\ completed = <<>>
    /\ alertMsg = ""
    /\ csv = <<>>

Decide ==
    \E data \in DecideResponses : handleAnalyzeResolved(1, data)

DecideNext == Len(pending) = 1 /\ Decide

SpecDecide == DecideInit /\ [][DecideNext]_vars

-----------------------------------------------------------------------------
(* The decision as the specification words it, read off a result record r: *)
(* the scores and the thresholds recorded in r, never the stack's own      *)
(* intermediate values.                                                    *)

Decided == result # Null

\* the backend called the sample fake, in any letter case
SaysFake(vd) ==
    /\ vd.present
    /\ Len(vd.s) = 4
    /\ vd.s[1] \in {"f", "F"} /\ vd.s[2] \in {"a", "A"}
    /\ vd.s[3] \in {"k", "K"} /\ vd.s[4] \in {"e", "E"}

IsPresent(x) == x.t = "num"

SpoofFailed(r) == r.prob_real < 6000

AnomalyFailed(r) ==
    IsPresent(r.iso_score) /\ r.iso_score.v < r.anomaly_threshold_used

MismatchFailed(r) ==
    /\ r.has_enrollment
    /\ IsPresent(r.similarity)
    /\ r.similarity.v < r.similarity_threshold_used

One(b) == IF b THEN 1 ELSE 0

\* the scoring response a result record was decided on, with the verdict
\* label vd and the best match bm
ResponseWith(r, vd, bm) ==
    Response(Num(r.prob_real), Num(r.prob_fake), vd, r.iso_score, r.similarity,
             r.has_enrollment, bm)

ResponseOf(r) == ResponseWith(r, r.verdict, r.best_match)

FailedChecks(r) ==
    One(SpoofFailed(r)) + One(AnomalyFailed(r)) + One(MismatchFailed(r))

-----------------------------------------------------------------------------
(* C1 *)

\* C1, as claimed: every decision on a fake probability above 0.6 is REJECT,
\* whatever the other fields of the scoring response are.
C1_FakeAbove06Rejects ==
    (Decided /\ result.prob_fake > 6000) => result.verdict_frontend = REJECT

\* C1, amended: every decision on a fake probability above 0.6 whose backend
\* verdict label is "fake" (in any letter case) is REJECT, whatever the
\* anomaly score, similarity, enrollment flag and thresholds are.
C1_FakeAbove06AndFakeLabelRejects ==
    (Decided /\ result.prob_fake > 6000 /\ SaysFake(result.verdict))
        => result.verdict_frontend = REJECT

\* a decision on fake probability above 0.6 and the label "FAKE", with the
\* real probability high and an anomaly flagged
C1_Witness ==
    /\ Decided
    /\ result.prob_fake > 6000
    /\ result.verdict = Present(<<"F", "A", "K", "E">>)
    /\ result.prob_real >= 7500
    /\ AnomalyFailed(result)
    /\ result.verdict_frontend = REJECT

-----------------------------------------------------------------------------
(* C2 *)

\* C2: every decision on a real probability below 0.5 has risk tier High,
\* whatever the anomaly score, similarity, enrollment flag and thresholds.
C2_RealBelow05IsHigh ==
    (Decided /\ result.prob_real < 5000) => result.risk_level_frontend = High

\* a decision on a real probability below 0.5 where neither the anomaly nor
\* the identity check failed: only the hard rule makes it High
C2_Witness ==
    /\ Decided
    /\ result.prob_real < 5000
    /\ ~AnomalyFailed(result)
    /\ ~MismatchFailed(result)
    /\ result.risk_level_frontend = High

-----------------------------------------------------------------------------
(* C3 *)

\* C3: the final verdict is ACCEPT exactly when the base verdict is ACCEPT
\* and no check failed, REJECT exactly when the base verdict is REJECT, and
\* SUSPICIOUS exactly when the base verdict is ACCEPT and a check failed.
C3_FinalVerdictFromBaseAndChecks ==
    Decided =>
        LET base == baseVerdict(ResponseOf(result))
            none == FailedChecks(result) = 0
            v == result.verdict_frontend
        IN  /\ (v = ACCEPT) <=> (base = ACCEPT /\ none)
            /\ (v = REJECT) <=> (base = REJECT)
            /\ (v = SUSPICIOUS) <=> (base = ACCEPT /\ ~none)

\* a REJECT decision with all three checks failed
C3_Witness ==
    /\ Decided
    /\ FailedChecks(result) = 3
    /\ result.verdict_frontend = REJECT

-----------------------------------------------------------------------------
(* C4 *)

\* C4: when the real probability is at least 0.5, the risk tier is the
\* reference mapping of (1 if real probability < 0.75) + (1 if the anomaly
\* check failed) + (1 if the identity check failed): Low up to 1, Medium for
\* 2, High from 3.
C4_RiskTierIsReferenceMapping ==
    (Decided /\ result.prob_real >= 5000) =>
        LET score == One(result.prob_real < 7500) + One(AnomalyFailed(result))
                        + One(MismatchFailed(result))
        IN  result.risk_level_frontend =
                IF score <= 1 THEN Low ELSE IF score = 2 THEN Medium ELSE High

\* a decision on a real probability of exactly 0.75 with the two other checks
\* failed: Medium
C4_Witness ==
    /\ Decided
    /\ result.prob_real = 7500
    /\ AnomalyFailed(result)
    /\ MismatchFailed(result)
    /\ result.risk_level_frontend = Medium

-----------------------------------------------------------------------------
(* C5 *)

\* C5: the reasons list has as many entries as checks failed (so it is empty
\* exactly when none failed), and no reason appears twice.
C5_ReasonsCountFailedChecks ==
    Decided =>
        /\ Len(result.reasons) = FailedChecks(result)
        /\ (result.reasons = <<>>) <=> (FailedChecks(result) = 0)
        /\ \A i, j \in 1..Len(result.reasons) :
              result.reasons[i] = result.reasons[j] => i = j

\* a decision with the anomaly and the identity check failed and the spoof
\* check passed
C5_Witness ==
    /\ Decided
    /\ ~SpoofFailed(result)
    /\ AnomalyFailed(result)
    /\ MismatchFailed(result)
    /\ Len(result.reasons) = 2

-----------------------------------------------------------------------------
(* C6 *)

\* the decision on the scores and thresholds of r, made again for the file f
\* on a response that carries the verdict label vd and the best match bm
Replay(r, f, vd, bm) ==
    merged(ResponseWith(r, vd, bm), f, r.similarity_threshold_used,
           r.anomaly_threshold_used)

SameDecision(r, q) ==
    /\ q.verdict_frontend = r.verdict_frontend
    /\ q.risk_level_frontend = r.risk_level_frontend
    /\ q.reasons = r.reasons

VerdictLabels ==
    { Present(<<"f", "a", "k", "e">>), Present(<<"F", "A", "K", "E">>),
      Present(<<"r", "e", "a", "l">>), Present(<<>>), Absent }

\* the labels are the same string up to letter case, an absent label
\* counting as the empty one
SameLabel(a, b) ==
    \/ SaysFake(a) /\ SaysFake(b)
    \/ ~SaysFake(a) /\ ~SaysFake(b) /\ OrEmpty(a) = OrEmpty(b)

\* C6, as claimed: two decisions on equal real probability, fake probability,
\* anomaly score, enrollment flag, similarity and thresholds are the same in
\* verdict, risk tier and reasons, whatever else the response contains.
C6_DecisionIsFunctionOfScores ==
    Decided =>
        \A f \in Files : \A vd \in VerdictLabels : \A bm \in {Null, Str(1)} :
            SameDecision(result, Replay(result, f, vd, bm))

\* C6, amended: two decisions on equal real probability, fake probability,
\* anomaly score, enrollment flag, similarity, thresholds and backend verdict
\* label (up to letter case) are the same in verdict, risk tier and reasons,
\* whatever else the response contains and whatever file is analysed.
C6_DecisionIsFunctionOfScoresAndLabel ==
    Decided =>
        \A f \in Files : \A vd \in VerdictLabels : \A bm \in {Null, Str(1)} :
            SameLabel(vd, result.verdict)
                => SameDecision(result, Replay(result, f, vd, bm))

\* a REJECT decision on the label "FAKE" for the file "a" with no best match:
\* its replays differ from it in label spelling, file and best match
C6_Witness ==
    /\ Decided
    /\ result.verdict = Present(<<"F", "A", "K", "E">>)
    /\ result.best_match = Null
    /\ result.file_name = <<"a">>
    /\ result.has_enrollment
    /\ IsPresent(result.similarity)
    /\ result.verdict_frontend = REJECT

-----------------------------------------------------------------------------
(* C7 *)

\* C7: every decision has one verdict out of ACCEPT, REJECT, SUSPICIOUS and
\* one risk tier out of Low, Medium, High, for out-of-range scores too, and
\* every response that arrives is decided.
C7_VerdictAndTierAreTotal ==
    /\ Decided =>
          /\ result.verdict_frontend \in {ACCEPT, REJECT, SUSPICIOUS}
          /\ result.risk_level_frontend \in {Low, Medium, High}
    /\ (pending = <<>> /\ alertMsg = "" /\ completed # <<>>) => Decided

\* a decision on a real probability of 1.5, a fake probability of 2.0, an
\* anomaly score below the slider's range and a similarity of -1
C7_Witness ==
    /\ Decided
    /\ result.prob_real > 10000
    /\ result.prob_fake > 10000
    /\ result.iso_score = Num(-15001)
    /\ result.similarity = Num(-10000)
    /\ result.verdict_frontend \in {ACCEPT, REJECT, SUSPICIOUS}
    /\ result.risk_level_frontend \in {Low, Medium, High}

-----------------------------------------------------------------------------
(* C8 *)

\* C8: after any sequence of successful analyses the history is the exact
\* reverse of the order of completion: the record of the k-th completed
\* analysis out of n is at position n-k+1 from the top.
C8_HistoryIsReverseOfCompletion ==
    /\ Len(history) = Len(completed)
    /\ \A k \in 1..Len(completed) :
          history[Len(completed) - k + 1] = completed[k]

\* two analyses with different records have completed
C8_Witness ==
    /\ Len(completed) = 2
    /\ completed[1] # completed[2]
    /\ history[1] = completed[2]

-----------------------------------------------------------------------------
(* C9 *)

\* C9: the history only grows: a successful analysis adds exactly one record
\* on top of the records already there, which keep their order and content;
\* every other step (threshold change, file change, export, failed analysis,
\* tab switch) leaves the history as it is.
C9_HistoryOnlyGrows ==
    [][ IF Len(completed') = Len(completed) + 1
        THEN /\ Len(history') = Len(history) + 1
             /\ SubSeq(history', 2, Len(history')) = history
        ELSE history' = history ]_vars

\* a history of two records, just exported
C9_Witness ==
    /\ Len(history) = 2
    /\ Len(completed) = 2
    /\ csv # <<>>

-----------------------------------------------------------------------------
(* C10 *)

\* the text cut at every occurrence of the character sep
RECURSIVE Split(_, _)
Split(text, sep) ==
    IF \A i \in 1..Len(text) : text[i] # sep THEN <<text>>
    ELSE LET i == CHOOSE k \in 1..Len(text) :
                      text[k] = sep /\ \A m \in 1..(k - 1) : text[m] # sep
         IN  <<SubSeq(text, 1, i - 1)>> \o Split(SubSeq(text, i + 1, Len(text)), sep)

HeaderLine ==
    << "i", "n", "d", "e", "x", ",", "f", "i", "l", "e", ",",
       "v", "e", "r", "d", "i", "c", "t", ",",
       "p", "r", "o", "b", "_", "r", "e", "a", "l", ",",
       "p", "r", "o", "b", "_", "f", "a", "k", "e", ",", "r", "i", "s", "k" >>

\* C10: the export of a history of n >= 1 records is the header row
\* index,file,verdict,prob_real,prob_fake,risk followed by exactly n rows, one
\* per record in newest-first order, whose index field counts down from n on
\* the first row to 1 on the last.
C10_ExportHasHeaderAndCountedRows ==
    csv # <<>> =>
        LET lines == Split(csv, "\n")
            n == Len(history)
        IN  /\ Len(lines) = n + 1
            /\ lines[1] = HeaderLine
            /\ \A i \in 1..n :
                  /\ i + 1 <= Len(lines)
                  /\ LET fields == Split(lines[i + 1], ",")
                         m == Len(fields)
                     IN  /\ fields[1] = IntToString(n - i + 1)
                         /\ m >= 6
                         /\ fields[m - 3] = history[i].verdict
                         /\ fields[m] = history[i].risk

-----------------------------------------------------------------------------
\* C11: an export asked for while the history is empty ends in the explicit
\* message "No history to download." and produces no file; no file is ever
\* produced from an empty history.
C11_EmptyExportIsRefused ==
    /\ [](csv # <<>> => history # <<>>)
    /\ [][(handleDownloadHistory /\ history = <<>>)
            => (alertMsg' = "No history to download." /\ csv' = <<>>)]_vars

C11_Witness ==
    /\ history = <<>>
    /\ alertMsg = "No history to download."
    /\ csv = <<>>

-----------------------------------------------------------------------------
\* the k-th field of a parsed row, empty where the row has no such field
Field(fields, k) == IF k <= Len(fields) THEN fields[k] ELSE <<>>

\* the (verdict, risk) columns of the rows below the header of an exported
\* text, as a reader of the file gets them
ParsedPairs(text) ==
    LET lines == Split(text, "\n")
    IN  [i \in 1..(Len(lines) - 1) |->
            LET fields == Split(lines[i + 1], ",")
            IN  <<Field(fields, 3), Field(fields, 6)>>]

\* C12: for every non-empty history, cutting the exported text into rows and
\* the rows into fields at the comma gives back, in order, exactly the
\* (verdict, risk) pairs of the history, whatever the file names are.
C12_ExportRoundTrip ==
    csv # <<>> =>
        ParsedPairs(csv) =
            [i \in 1..Len(history) |-> <<history[i].verdict, history[i].risk>>]

-----------------------------------------------------------------------------
\* C13, as claimed: every record of the session history carries the
\* similarity and the anomaly threshold its decision was made with.
C13_HistoryRecordsCarryThresholds ==
    \A i \in 1..Len(history) :
        {"similarity_threshold_used", "anomaly_threshold_used"}
            \subseteq DOMAIN history[i]

\* C13, amended: the displayed result carries the similarity and the anomaly
\* threshold its checks and risk tier were computed with, and neither it nor
\* the history changes when a slider is moved later; the records of the
\* history hold file, verdict, probReal, probFake and risk and no threshold.
C13_ResultCarriesThresholdsUsed ==
    /\ [](Decided =>
            /\ result.reasons =
                  reasons(ResponseOf(result), result.similarity_threshold_used,
                          result.anomaly_threshold_used)
            /\ result.risk_level_frontend =
                  riskString(ResponseOf(result), result.similarity_threshold_used,
                             result.anomaly_threshold_used))
    /\ [](\A i \in 1..Len(history) :
            DOMAIN history[i] = {"file", "verdict", "probReal", "probFake", "risk"})
    /\ [][(similarityThr' # similarityThr \/ anomalyThr' # anomalyThr)
            => (result' = result /\ history' = history)]_vars

\* a result decided with an anomaly threshold of 0.0 and a similarity
\* threshold of 0.8 is on the page while both sliders stand elsewhere
C13_Witness ==
    /\ Decided
    /\ Len(history) >= 1
    /\ result.anomaly_threshold_used = 0 /\ anomalyThr = -5000
    /\ result.similarity_threshold_used = 8000 /\ similarityThr = 6000
    /\ AnomalyFailed(result)

-----------------------------------------------------------------------------
\* the number of positions of the sequence s that hold e
Count(s, e) == Cardinality({i \in 1..Len(s) : s[i] = e})

\* a history record with every field set
CompleteRecord(h) ==
    /\ DOMAIN h = {"file", "verdict", "probReal", "probFake", "risk"}
    /\ h.file \in {f.name : f \in Files}
    /\ h.verdict \in {ACCEPT, REJECT, SUSPICIOUS}
    /\ h.probReal \in Int /\ h.probFake \in Int
    /\ h.risk \in {Low, Medium, High}

\* C14: whatever the order in which requests in flight complete, after k
\* successful analyses the history holds exactly k records, each complete,
\* one for every completed analysis: no append is lost.
C14_NoAppendLost ==
    /\ Len(history) = Len(completed)
    /\ \A i \in 1..Len(history) : CompleteRecord(history[i])
    /\ \A k \in 1..Len(completed) :
          Count(history, completed[k]) = Count(completed, completed[k])

\* one analysis has completed while a request sent before that completion,
\* from a render with an empty history, is still in flight
C14_Witness ==
    /\ Len(history) = 1
    /\ Len(completed) = 1
    /\ Len(pending) = 1
    /\ pending[1].history = <<>>

-----------------------------------------------------------------------------
\* C15: a decision is made with the thresholds the sliders show at the moment
\* the scores arrive: the result of every completing analysis records those
\* thresholds, and its reasons and risk tier are the ones they give.
C15_DecisionUsesThresholdsAtArrival ==
    [][Len(completed') = Len(completed) + 1 =>
          /\ result'.similarity_threshold_used = similarityThr
          /\ result'.anomaly_threshold_used = anomalyThr
          /\ result'.reasons =
                reasons(ResponseOf(result'), similarityThr, anomalyThr)
          /\ result'.risk_level_frontend =
                riskString(ResponseOf(result'), similarityThr, anomalyThr)]_vars

-----------------------------------------------------------------------------
\* C16: when a scoring request ends without a response to decide on (network
\* error or HTTP status not OK), the displayed result and the history stay
\* exactly as they were, the user is shown "Error calling backend: ..." and
\* the page stops loading.
C16_FailedRequestDecidesNothing ==
    [][(Len(pending') < Len(pending) /\ completed' = completed) =>
          /\ result' = result
          /\ history' = history
          /\ alertMsg' \in {"Error calling backend: Failed to fetch",
                            "Error calling backend: HTTP 500"}
          /\ ~loading']_vars

\* a request failed with status 500 after an earlier analysis had succeeded:
\* the earlier result and its history record are still there
C16_Witness ==
    /\ alertMsg = "Error calling backend: HTTP 500"
    /\ Decided
    /\ Len(history) = 1
    /\ pending = <<>>
    /\ ~loading

-----------------------------------------------------------------------------
\* the place of a reason string in the order spoof, anomaly, mismatch
Rank(reason) ==
    CASE reason = SpoofReason -> 1
      [] reason = AnomalyReason -> 2
      [] reason = MismatchReason -> 3
      [] OTHER -> 0

\* C17: the reasons of every decision are among the three fixed strings and
\* stand in the order spoof, anomaly, mismatch: of any two reasons the one
\* earlier in that order comes first, whatever the scores and thresholds.
C17_ReasonsInFixedOrder ==
    Decided =>
        /\ \A i \in 1..Len(result.reasons) : Rank(result.reasons[i]) \in 1..3
        /\ \A i, j \in 1..Len(result.reasons) :
              i < j => Rank(result.reasons[i]) < Rank(result.reasons[j])

\* all three checks failed
C17_Witness ==
    /\ Decided
    /\ result.reasons = <<SpoofReason, AnomalyReason, MismatchReason>>

-----------------------------------------------------------------------------
Has(rs, reason) == \E i \in 1..Len(rs) : rs[i] = reason

\* the risk tier of the reference mapping for a risk score
TierOf(score) == IF score <= 1 THEN Low ELSE IF score = 2 THEN Medium ELSE High

\* C18: the decision has the mismatch reason exactly when the speaker is
\* enrolled, a similarity is present and it is strictly below the similarity
\* threshold; with no enrollment or no similarity the check fails and adds
\* risk at no position of the similarity slider, and the risk tier has no
\* mismatch term.
C18_MismatchCheck ==
    Decided =>
        /\ Has(result.reasons, MismatchReason) <=>
              (/\ result.has_enrollment
               /\ IsPresent(result.similarity)
               /\ result.similarity.v < result.similarity_threshold_used)
        /\ ~(result.has_enrollment /\ IsPresent(result.similarity)) =>
              /\ LET data == ResponseOf(result)
                 IN  \A t \in SimilaritySliderValues :
                         /\ ~mismatchCheck(data, t)
                         /\ mismatchPenalty(data, t) = 0
              /\ result.prob_real >= 5000 =>
                    result.risk_level_frontend =
                        TierOf(One(result.prob_real < 7500)
                                 + One(AnomalyFailed(result)))

\* an enrolled speaker's similarity of exactly the threshold 0.8 passed, with
\* nothing else failed: no reason, Low
C18_Witness ==
    /\ Decided
    /\ result.has_enrollment
    /\ result.similarity = Num(8000)
    /\ result.similarity_threshold_used = 8000
    /\ result.reasons = <<>>
    /\ result.risk_level_frontend = Low

-----------------------------------------------------------------------------
\* C19: the decision has the anomaly reason exactly when an anomaly score is
\* present and strictly below the anomaly threshold; a response with no
\* anomaly score (null or no such field) has no anomaly term in its risk
\* tier, and its anomaly check fails and adds risk at no position of the
\* anomaly slider, the positive ones included.
C19_AnomalyCheck ==
    Decided =>
        /\ Has(result.reasons, AnomalyReason) <=>
              (/\ IsPresent(result.iso_score)
               /\ result.iso_score.v < result.anomaly_threshold_used)
        /\ ~IsPresent(result.iso_score) =>
              /\ LET data == ResponseOf(result)
                 IN  \A t \in AnomalySliderValues :
                         /\ ~anomalyCheck(data, t)
                         /\ anomalyPenalty(data, t) = 0
              /\ result.prob_real >= 5000 =>
                    result.risk_level_frontend =
                        TierOf(One(result.prob_real < 7500)
                                 + One(MismatchFailed(result)))

\* a response whose anomaly score is null, decided with the positive
\* threshold 0.05 and a real probability of 0.75: no reason, Low
C19_Witness ==
    /\ Decided
    /\ result.iso_score = Null
    /\ result.anomaly_threshold_used = 500
    /\ result.prob_real = 7500
    /\ result.reasons = <<>>
    /\ result.risk_level_frontend = Low

-----------------------------------------------------------------------------
\* the scoring response a result record was decided on, with the real and
\* the fake probability replaced by pr and pf
ResponseWithProbs(r, pr, pf) ==
    Response(Num(pr), Num(pf), r.verdict, r.iso_score, r.similarity,
             r.has_enrollment, r.best_match)

ProbabilityGrid == {0, 3999, 4000, 5999, 6000, 6001, 10000}

\* C20: the decision has the spoof reason exactly when the real probability
\* is below 0.6, whatever the fake probability is; it is REJECT exactly when
\* the label is "fake" and the fake probability is above 0.6, whatever the
\* real probability is; so a fake probability above 0.6 with a real
\* probability of at least 0.6 is decided without the spoof reason.
C20_SpoofCheckAndBaseVerdict ==
    Decided =>
        /\ Has(result.reasons, SpoofReason) <=> result.prob_real < 6000
        /\ \A pf \in ProbabilityGrid :
              spoofCheck(ResponseWithProbs(result, result.prob_real, pf))
                  <=> Has(result.reasons, SpoofReason)
        /\ result.verdict_frontend = REJECT <=>
              (SaysFake(result.verdict) /\ result.prob_fake > 6000)
        /\ \A pr \in ProbabilityGrid :
              baseVerdict(ResponseWithProbs(result, pr, result.prob_fake))
                  = baseVerdict(ResponseOf(result))
        /\ (result.prob_fake > 6000 /\ result.prob_real >= 6000) =>
              ~Has(result.reasons, SpoofReason)

\* a REJECT on the label "fake" with fake probability 0.6001 and real
\* probability 0.6, the two not summing to 1: no spoof reason
C20_Witness ==
    /\ Decided
    /\ result.prob_fake = 6001
    /\ result.prob_real = 6000
    /\ SaysFake(result.verdict)
    /\ result.verdict_frontend = REJECT
    /\ ~Has(result.reasons, SpoofReason)

-----------------------------------------------------------------------------
\* C21: verdict and risk tier can disagree: whatever the thresholds of a
\* request in flight are, there is a scoring response on which its decision
\* is SUSPICIOUS with the risk tier Low.
C21_SuspiciousWithLowExists ==
    Len(pending) = 1 =>
        ENABLED (/\ Decide
                 /\ result'.verdict_frontend = SUSPICIOUS
                 /\ result'.risk_level_frontend = Low)

\* a decision SUSPICIOUS with Low: only the anomaly check failed, on a real
\* probability of 1.5
C21_Witness ==
    /\ Decided
    /\ result.verdict_frontend = SUSPICIOUS
    /\ result.risk_level_frontend = Low
    /\ result.reasons = <<AnomalyReason>>
    /\ result.prob_real = 15000

-----------------------------------------------------------------------------
\* the reasons of the failed checks of a decision, the checks taken in the
\* order the sequence order names
ReasonsInOrder(r, order) ==
    LET failed(reason) ==
            CASE reason = SpoofReason -> SpoofFailed(r)
              [] reason = AnomalyReason -> AnomalyFailed(r)
              [] reason = MismatchReason -> MismatchFailed(r)
        RECURSIVE pick(_)
        pick(k) == IF k > Len(order) THEN <<>>
                   ELSE (IF failed(order[k]) THEN <<order[k]>> ELSE <<>>)
                            \o pick(k + 1)
    IN  pick(1)

\* C22, as claimed: every check is evaluated whatever the others gave, and
\* the reasons of the failed ones are listed mismatch first, anomaly second,
\* spoof third.
C22_ReasonsMismatchAnomalySpoof ==
    Decided =>
        result.reasons =
            ReasonsInOrder(result, <<MismatchReason, AnomalyReason, SpoofReason>>)

\* C22, amended: every check is evaluated whatever the others gave, and the
\* reasons of the failed ones are listed spoof first, anomaly second,
\* mismatch third.
C22_ReasonsSpoofAnomalyMismatch ==
    Decided =>
        result.reasons =
            ReasonsInOrder(result, <<SpoofReason, AnomalyReason, MismatchReason>>)

\* the spoof and the mismatch check failed and the anomaly check, between
\* them, passed on a present score
C22_Witness ==
    /\ Decided
    /\ result.reasons = <<SpoofReason, MismatchReason>>
    /\ IsPresent(result.iso_score)

-----------------------------------------------------------------------------
\* C23: no result is displayed exactly when the history is empty, and the
\* newest record of a non-empty history has the file name, verdict, risk
\* tier, real and fake probability of the displayed result.
C23_ResultIsNewestRecord ==
    /\ (result = Null) <=> (history = <<>>)
    /\ history # <<>> =>
          /\ history[1].file = result.file_name
          /\ history[1].verdict = result.verdict_frontend
          /\ history[1].risk = result.risk_level_frontend
          /\ history[1].probReal = result.prob_real
          /\ history[1].probFake = result.prob_fake

\* the second analysis, of another file and with another verdict than the
\* first, has completed with a failed check
C23_Witness ==
    /\ Len(history) = 2
    /\ history[1].file # history[2].file
    /\ history[1].verdict # history[2].verdict
    /\ result.verdict_frontend = SUSPICIOUS
    /\ result.file_name = history[1].file

-----------------------------------------------------------------------------
\* C24: every decision with the verdict ACCEPT has the risk tier Low: Medium
\* and High never come with ACCEPT.
C24_AcceptIsLow ==
    (Decided /\ result.verdict_frontend = ACCEPT) =>
        /\ result.risk_level_frontend = Low
        /\ result.risk_level_frontend \notin {Medium, High}

\* an ACCEPT on a real probability of exactly 0.6, in the band that costs one
\* point of risk, with a fake probability above 0.6
C24_Witness ==
    /\ Decided
    /\ result.verdict_frontend = ACCEPT
    /\ result.prob_real = 6000
    /\ result.prob_fake = 20000
    /\ result.risk_level_frontend = Low

-----------------------------------------------------------------------------
\* C25: at most one scoring request is in flight at any time, the loading
\* flag is set exactly while one is, and a request starts only when the
\* flag is clear and none is in flight.
C25_AtMostOneInFlight ==
    /\ [](Len(pending) <= 1 /\ (loading <=> pending # <<>>))
    /\ [][Len(pending') > Len(pending)
            => (~loading /\ pending = <<>> /\ loading')]_vars

\* a second request is in flight after the first analysis has completed
C25_Witness ==
    /\ loading
    /\ Len(pending) = 1
    /\ Len(completed) = 1
    /\ pending[1].history = history

-----------------------------------------------------------------------------
\* C26: when every request in flight settles, a set loading flag is always
\* cleared later; the step that ends a request, with a response or with a
\* failure, leaves the flag clear; and the flag is set only while a request
\* is in flight.
C26_LoadingIsCleared ==
    /\ loading ~> ~loading
    /\ [][Len(pending') < Len(pending) => ~loading']_vars
    /\ [](loading => pending # <<>>)

\* the flag is clear after a request failed on the network with no analysis
\* completed before
C26_Witness ==
    /\ ~loading
    /\ alertMsg = "Error calling backend: Failed to fetch"
    /\ pending = <<>>
    /\ completed = <<>>

-----------------------------------------------------------------------------
\* C27: while no file is selected no step sends a request, and with none in
\* flight no step sets the loading flag or changes the result or the
\* history; the click on Analyze then only raises "Select or load an audio
\* file first.".
C27_NoFileStartsNothing ==
    /\ [][file = Null => Len(pending') <= Len(pending)]_vars
    /\ [][(file = Null /\ pending = <<>>) =>
             (~loading' /\ result' = result /\ history' = history)]_vars
    /\ [][alertMsg' = "Select or load an audio file first." =>
             (/\ file = Null
              /\ UNCHANGED <<file, audioUrl, loading, pending, result, history,
                             completed, similarityThr, anomalyThr>>)]_vars

\* Analyze was clicked after the selection had been emptied, with the
\* result of an earlier analysis on the page
C27_Witness ==
    /\ alertMsg = "Select or load an audio file first."
    /\ file = Null
    /\ Decided
    /\ Len(history) = 1
    /\ ~loading
    /\ pending = <<>>

-----------------------------------------------------------------------------
\* C28: a step that exports leaves the history, the result, the thresholds,
\* the loading flag, the file and the requests in flight as they were; the
\* exported text is that of the history as it stands, so an export right
\* after another gives the same text.
C28_ExportIsReadOnly ==
    /\ [][csv' # <<>> =>
             (/\ UNCHANGED <<history, result, similarityThr, anomalyThr,
                             loading, file, pending, completed>>
              /\ csv # <<>> => csv' = csv)]_vars
    /\ [](csv # <<>> => csv = csvText(history))

\* an export of a history of two different records
C28_Witness ==
    /\ csv # <<>>
    /\ Len(history) = 2
    /\ history[1] # history[2]
    /\ csv = csvText(history)
    /\ alertMsg = ""

-----------------------------------------------------------------------------
\* C29: a step that changes the similarity threshold or the anomaly
\* threshold changes no other part of the state: the other threshold, the
\* displayed result with its verdict, risk tier, reasons and recorded
\* thresholds, every history record, the file, the loading flag and the
\* requests in flight stay as they were.
C29_ThresholdChangeChangesOnlyThreshold ==
    /\ [][similarityThr' # similarityThr =>
             UNCHANGED <<anomalyThr, result, history, file, audioUrl, loading,
                         pending, completed, siteTab, tab>>]_vars
    /\ [][anomalyThr' # anomalyThr =>
             UNCHANGED <<similarityThr, result, history, file, audioUrl, loading,
                         pending, completed, siteTab, tab>>]_vars

\* the displayed result keeps the mismatch reason it got under the threshold
\* 0.8 while the slider stands at 0.6, which its similarity of 0.7 passes
C29_Witness ==
    /\ Decided
    /\ Has(result.reasons, MismatchReason)
    /\ result.similarity = Num(7000)
    /\ result.similarity_threshold_used = 8000
    /\ similarityThr = 6000
    /\ history[1].verdict = SUSPICIOUS

-----------------------------------------------------------------------------
\* the place of a risk tier in the order Low < Medium < High
TierRank(tier) ==
    CASE tier = Low -> 1
      [] tier = Medium -> 2
      [] tier = High -> 3
      [] OTHER -> 0

\* the thresholds a decision is made again with: those of the requests and
\* the top of each slider
RaisedSimilarityThresholds == DecideSimilaritySteps \cup {9900}
RaisedAnomalyThresholds == DecideAnomalySteps \cup {15000}

\* C30: made again on the same scores with a similarity threshold and an
\* anomaly threshold at least as high, a decision keeps every reason it had,
\* is not ACCEPT if it was SUSPICIOUS, and has a risk tier at least as high
\* in the order Low < Medium < High.
C30_MonotoneInThresholds ==
    Decided =>
        LET data == ResponseOf(result)
        IN  \A s \in RaisedSimilarityThresholds :
            \A a \in RaisedAnomalyThresholds :
                (s >= result.similarity_threshold_used
                    /\ a >= result.anomaly_threshold_used) =>
                    LET rs == reasons(data, s, a)
                    IN  /\ \A i \in 1..Len(result.reasons) :
                              Has(rs, result.reasons[i])
                        /\ result.verdict_frontend = SUSPICIOUS =>
                              finalVerdict(baseVerdict(data), rs) # ACCEPT
                        /\ TierRank(riskString(data, s, a)) >=
                              TierRank(result.risk_level_frontend)

\* an ACCEPT made with both thresholds at their lowest, on an anomaly score
\* of -0.0001 and an enrolled similarity of 0.7999 that fail under higher
\* thresholds
C30_Witness ==
    /\ Decided
    /\ result.verdict_frontend = ACCEPT
    /\ result.anomaly_threshold_used = -15000
    /\ result.iso_score = Num(-1)
    /\ result.similarity_threshold_used = 6000
    /\ result.has_enrollment
    /\ result.similarity = Num(7999)
    /\ result.prob_real = 7499

=============================================================================
